---- MODULE Spec2Model ----
(***************************************************************************)
(* Attribute predicates of the selector VM                                 *)
(* (src/selectors_vm/attribute_matcher.rs).                                *)
(*                                                                         *)
(* Bytes are the integers 0..255, byte strings are sequences of bytes.     *)
(* A range is a record [start, end] of 0-based offsets, end exclusive, as  *)
(* in AttributeOutline.  A panicking slice is the return value "panic".    *)
(***************************************************************************)
EXTENDS Integers, Sequences, FiniteSets, TLC

VARIABLES
    input,              \* AttributeMatcher.input: the bytes of the chunk
    attributes,         \* AttributeMatcher.attributes: the span table
    is_html_element,    \* AttributeMatcher.is_html_element
    id,                 \* AttributeMatcher.id: the LazyCell of the id value
    class,              \* AttributeMatcher.class: the LazyCell of the class value
    pc,                 \* "idle" between calls, "scan" inside the loop of
                        \* has_attr_with_substring, "returned", "panicked"
    call,               \* the predicate called last and its arguments
    ret,                \* what that call returned: "true", "false", "panic"
    actual_value,       \* the Option<Bytes> the last call's comparison was given
    haystack,           \* has_attr_with_substring: the local `haystack`
    iters,              \* has_attr_with_substring: loop iterations of the call
    id_resolutions,     \* how often the closure of id.borrow_with has run
    class_resolutions,  \* how often the closure of class.borrow_with has run
    seen                \* an earlier id_matches / has_class call and its result

vars == << input, attributes, is_html_element, id, class, pc, call, ret,
           actual_value, haystack, iters, id_resolutions, class_resolutions,
           seen >>

(***************************************************************************)
(* Bounds of the model.                                                    *)
(***************************************************************************)
MaxAttrs == 2
MaxValueLen == 2
MaxNeedleLen == 2

(***************************************************************************)
(* Byte strings.                                                           *)
(***************************************************************************)
ID_ATTR == << 105, 100 >>

CLASS_ATTR == << 99, 108, 97, 115, 115 >>

is_attr_whitespace(b) == b = 32 \/ b = 10 \/ b = 13 \/ b = 9 \/ b = 12

to_ascii_lowercase(b) == IF b >= 65 /\ b <= 90 THEN b + 32 ELSE b

to_ascii_uppercase(b) == IF b >= 97 /\ b <= 122 THEN b - 32 ELSE b

eq_ignore_ascii_case(x, y) ==
    /\ Len(x) = Len(y)
    /\ \A i \in 1..Len(x) : to_ascii_lowercase(x[i]) = to_ascii_lowercase(y[i])

None == [some |-> FALSE, val |-> << >>]

Some(v) == [some |-> TRUE, val |-> v]

Bool(b) == IF b THEN "true" ELSE "false"

\* Chunk::slice(range): the bytes of the buffer in [start, end)
slice(r) == SubSeq(input, r.start + 1, r.end)

\* x[from..], x[..to] on a byte slice, 0-based
slice_from(x, from) == SubSeq(x, from + 1, Len(x))

slice_to(x, to) == SubSeq(x, 1, to)

\* slice::split_first
split_first(x) == IF x = << >> THEN None ELSE Some([first |-> Head(x), rest |-> Tail(x)])

\* slice::split(pred): the runs between separator bytes, empty runs included;
\* an empty slice has the one token << >>
RECURSIVE split_from(_, _, _)
split_from(x, i, cur) ==
    IF i > Len(x) THEN << cur >>
    ELSE IF is_attr_whitespace(x[i]) THEN << cur >> \o split_from(x, i + 1, << >>)
    ELSE split_from(x, i + 1, Append(cur, x[i]))

split(x) == split_from(x, 1, << >>)

\* memchr(b, h) and memchr2(b1, b2, h): the 0-based position of the first
\* byte of h that is b (resp. b1 or b2), or -1 for None
RECURSIVE memchr2_from(_, _, _, _)
memchr2_from(b1, b2, h, i) ==
    IF i > Len(h) THEN -1
    ELSE IF h[i] = b1 \/ h[i] = b2 THEN i - 1
    ELSE memchr2_from(b1, b2, h, i + 1)

memchr2(b1, b2, h) == memchr2_from(b1, b2, h, 1)

memchr(b, h) == memchr2_from(b, b, h, 1)

(***************************************************************************)
(* Case sensitivity (selectors::attr).                                     *)
(***************************************************************************)
to_unconditional(case_sensitivity, is_html) ==
    IF case_sensitivity = "AsciiCaseInsensitiveIfInHtmlElementInHtmlDocument" /\ is_html
    THEN "AsciiCaseInsensitive"
    ELSE "CaseSensitive"

cs_eq(case_sensitivity, x, y) ==
    IF case_sensitivity = "CaseSensitive" THEN x = y ELSE eq_ignore_ascii_case(x, y)

(***************************************************************************)
(* Name resolution.                                                        *)
(***************************************************************************)
\* the closure given to iter().find in AttributeMatcher::find
find_pred(a, lowercased_name) ==
    IF Len(lowercased_name) # a.name.end - a.name.start THEN FALSE
    ELSE LET attr_name == slice(a.name)
         IN  ~ \E i \in 1..Len(attr_name) :
                   to_ascii_lowercase(attr_name[i]) = lowercased_name[i]

RECURSIVE find_from(_, _)
find_from(k, lowercased_name) ==
    IF k > Len(attributes) THEN 0
    ELSE IF find_pred(attributes[k], lowercased_name) THEN k
    ELSE find_from(k + 1, lowercased_name)

\* the index in the table of the attribute found, 0 for None
find(lowercased_name) == find_from(1, lowercased_name)

get_value(lowercased_name) ==
    LET k == find(lowercased_name)
    IN  IF k = 0 THEN None ELSE Some(slice(attributes[k].value))

(***************************************************************************)
(* The inputs of the model: tags, names and operands.                      *)
(***************************************************************************)
SeqsUpTo(S, n) == UNION { [1..k -> S] : k \in 0..n }

AB_ATTR == << 97, 98 >>

AttrNames ==
    { ID_ATTR, AB_ATTR, << 65, 66 >>, CLASS_ATTR, << 98, 98, 98, 98, 98 >> }

TargetNames == { ID_ATTR, AB_ATTR, CLASS_ATTR }

ValueBytes == { 97, 65, 32 }

NeedleBytes == { 97, 65 }

Values == SeqsUpTo(ValueBytes, MaxValueLen)

Needles == SeqsUpTo(NeedleBytes, MaxNeedleLen)

CaseSensitivities ==
    { "CaseSensitive", "AsciiCaseInsensitiveIfInHtmlElementInHtmlDocument" }

Operands == [name : TargetNames \ {CLASS_ATTR}, value : Needles,
             case_sensitivity : CaseSensitivities]

\* the tag's text ` name="value" name="value"` and the ranges of its attributes
RECURSIVE Tokenize(_, _, _)
Tokenize(pairs, buf, outlines) ==
    IF pairs = << >> THEN [input |-> buf, attributes |-> outlines]
    ELSE LET p  == Head(pairs)
             ns == Len(buf) + 1
             ne == ns + Len(p.name)
             vs == ne + 2
             ve == vs + Len(p.value)
         IN  Tokenize(Tail(pairs),
                      buf \o << 32 >> \o p.name \o << 61, 34 >> \o p.value \o << 34 >>,
                      Append(outlines, [name  |-> [start |-> ns, end |-> ne],
                                        value |-> [start |-> vs, end |-> ve]]))

NoCall == [op |-> "none", name |-> << >>, value |-> << >>,
           case_sensitivity |-> "CaseSensitive"]

NoSeen == [op |-> "none", value |-> << >>, ret |-> "none"]

EmptyCell == [filled |-> FALSE, inner |-> None]

\* AttributeMatcher::new, for the tag whose attributes are `pairs`
New(pairs, ns_is_html) ==
    LET t == Tokenize(pairs, << >>, << >>)
    IN  /\ input = t.input
        /\ attributes = t.attributes
        /\ is_html_element = ns_is_html
        /\ id = EmptyCell
        /\ class = EmptyCell
        /\ pc = "idle"
        /\ call = NoCall
        /\ ret = "none"
        /\ actual_value = None
        /\ haystack = << >>
        /\ iters = 0
        /\ id_resolutions = 0
        /\ class_resolutions = 0
        /\ seen = NoSeen

\* a tag with at most one attribute, of any value
Init ==
    \E pairs \in SeqsUpTo([name : AttrNames, value : Values], 1) :
        \E h \in BOOLEAN : New(pairs, h)

(***************************************************************************)
(* The predicates.  A call that returns (or panics) sets call, ret and     *)
(* actual_value; the locals of has_attr_with_substring are dead outside    *)
(* its loop.  The caller then takes the result (Resume) and may call       *)
(* again; a panic unwinds through the caller and ends the pass.            *)
(***************************************************************************)
Return(c, value, r) ==
    /\ call' = c
    /\ actual_value' = value
    /\ ret' = r
    /\ pc' = (IF r = "panic" THEN "panicked" ELSE "returned")
    /\ haystack' = << >>
    /\ iters' = 0
    /\ UNCHANGED seen

OperandCall(op, operand) ==
    [op |-> op, name |-> operand.name, value |-> operand.value,
     case_sensitivity |-> operand.case_sensitivity]

\* LazyCell::borrow_with: the cell after the call, filled by `computed` when empty
borrow_with(cell, computed) ==
    IF cell.filled THEN cell ELSE [filled |-> TRUE, inner |-> computed]

\* the values a matcher closure may be given
Bytes == Seq(0..255)

value_matches(name, matcher) ==
    LET value == get_value(name)
    IN  IF value.some THEN matcher[value.val] ELSE FALSE

HasAttribute(lowercased_name) ==
    /\ pc = "idle"
    /\ Return([NoCall EXCEPT !.op = "has_attribute", !.name = lowercased_name],
              None, Bool(find(lowercased_name) # 0))
    /\ UNCHANGED << input, attributes, is_html_element, id, class,
                    id_resolutions, class_resolutions >>

\* id_matches as it would be with the id value looked up on every call
IdMatches_Unmemoized(id_arg) ==
    /\ pc = "idle"
    /\ id' = [filled |-> TRUE, inner |-> get_value(ID_ATTR)]
    /\ id_resolutions' = id_resolutions + 1
    /\ Return([NoCall EXCEPT !.op = "id_matches", !.value = id_arg], id'.inner,
              Bool(id'.inner.some /\ id'.inner.val = id_arg))
    /\ UNCHANGED << input, attributes, is_html_element, class, class_resolutions >>

IdMatches(id_arg) ==
    /\ pc = "idle"
    /\ id' = borrow_with(id, get_value(ID_ATTR))
    /\ id_resolutions' = id_resolutions + (IF id.filled THEN 0 ELSE 1)
    /\ Return([NoCall EXCEPT !.op = "id_matches", !.value = id_arg], id'.inner,
              Bool(id'.inner.some /\ id'.inner.val = id_arg))
    /\ UNCHANGED << input, attributes, is_html_element, class, class_resolutions >>

\* has_class as it would be with the class value memoized in the id cell
HasClass_InIdCell(class_name) ==
    /\ pc = "idle"
    /\ id' = borrow_with(id, get_value(CLASS_ATTR))
    /\ class_resolutions' = class_resolutions + (IF id.filled THEN 0 ELSE 1)
    /\ Return([NoCall EXCEPT !.op = "has_class", !.value = class_name], id'.inner,
              Bool(/\ id'.inner.some
                   /\ LET parts == split(id'.inner.val)
                      IN  \E k \in 1..Len(parts) : parts[k] = class_name))
    /\ UNCHANGED << input, attributes, is_html_element, class, id_resolutions >>

HasClass(class_name) ==
    /\ pc = "idle"
    /\ class' = borrow_with(class, get_value(CLASS_ATTR))
    /\ class_resolutions' = class_resolutions + (IF class.filled THEN 0 ELSE 1)
    /\ Return([NoCall EXCEPT !.op = "has_class", !.value = class_name], class'.inner,
              Bool(/\ class'.inner.some
                   /\ LET parts == split(class'.inner.val)
                      IN  \E k \in 1..Len(parts) : parts[k] = class_name))
    /\ UNCHANGED << input, attributes, is_html_element, id, id_resolutions >>

\* attr_eq as it would be without the namespace of the element
AttrEq_AlwaysHtml(operand) ==
    /\ pc = "idle"
    /\ Return(OperandCall("attr_eq", operand), get_value(operand.name),
              Bool(value_matches(operand.name,
                   [value \in Bytes |->
                       cs_eq(to_unconditional(operand.case_sensitivity, TRUE),
                             value, operand.value)])))
    /\ UNCHANGED << input, attributes, is_html_element, id, class,
                    id_resolutions, class_resolutions >>

AttrEq(operand) ==
    /\ pc = "idle"
    /\ Return(OperandCall("attr_eq", operand), get_value(operand.name),
              Bool(value_matches(operand.name,
                   [value \in Bytes |->
                       cs_eq(to_unconditional(operand.case_sensitivity, is_html_element),
                             value, operand.value)])))
    /\ UNCHANGED << input, attributes, is_html_element, id, class,
                    id_resolutions, class_resolutions >>

\* split_by is the caller's is_attr_whitespace
MatchesSplittedBy(operand) ==
    /\ pc = "idle"
    /\ Return(OperandCall("matches_splitted_by", operand), get_value(operand.name),
              Bool(value_matches(operand.name,
                   [value \in Bytes |->
                       LET case_sensitivity ==
                               to_unconditional(operand.case_sensitivity, is_html_element)
                           parts == split(value)
                       IN  \E k \in 1..Len(parts) :
                               cs_eq(case_sensitivity, parts[k], operand.value)])))
    /\ UNCHANGED << input, attributes, is_html_element, id, class,
                    id_resolutions, class_resolutions >>

HasAttrWithPrefix(operand) ==
    /\ pc = "idle"
    /\ Return(OperandCall("has_attr_with_prefix", operand), get_value(operand.name),
              Bool(value_matches(operand.name,
                   [value \in Bytes |->
                       LET case_sensitivity ==
                               to_unconditional(operand.case_sensitivity, is_html_element)
                           prefix_len == Len(operand.value)
                       IN  /\ Len(value) >= prefix_len
                           /\ cs_eq(case_sensitivity, slice_to(value, prefix_len),
                                    operand.value)])))
    /\ UNCHANGED << input, attributes, is_html_element, id, class,
                    id_resolutions, class_resolutions >>

\* has_attr_with_suffix as it would be with the leading sub-slice compared
HasAttrWithSuffix_Leading(operand) ==
    /\ pc = "idle"
    /\ Return(OperandCall("has_attr_with_suffix", operand), get_value(operand.name),
              Bool(value_matches(operand.name,
                   [value \in Bytes |->
                       LET case_sensitivity ==
                               to_unconditional(operand.case_sensitivity, is_html_element)
                           suffix_len == Len(operand.value)
                           value_len == Len(value)
                       IN  /\ value_len >= suffix_len
                           /\ cs_eq(case_sensitivity, slice_to(value, suffix_len),
                                    operand.value)])))
    /\ UNCHANGED << input, attributes, is_html_element, id, class,
                    id_resolutions, class_resolutions >>

HasAttrWithSuffix(operand) ==
    /\ pc = "idle"
    /\ Return(OperandCall("has_attr_with_suffix", operand), get_value(operand.name),
              Bool(value_matches(operand.name,
                   [value \in Bytes |->
                       LET case_sensitivity ==
                               to_unconditional(operand.case_sensitivity, is_html_element)
                           suffix_len == Len(operand.value)
                           value_len == Len(value)
                       IN  /\ value_len >= suffix_len
                           /\ cs_eq(case_sensitivity,
                                    slice_from(value, value_len - suffix_len),
                                    operand.value)])))
    /\ UNCHANGED << input, attributes, is_html_element, id, class,
                    id_resolutions, class_resolutions >>

\* has_attr_with_substring up to the first test of its loop
HasAttrWithSubstring(operand) ==
    /\ pc = "idle"
    /\ LET value == get_value(operand.name)
           c == OperandCall("has_attr_with_substring", operand)
       IN  IF ~ value.some \/ ~ split_first(operand.value).some
           THEN Return(c, value, "false")
           ELSE /\ call' = c
                /\ actual_value' = value
                /\ ret' = "none"
                /\ pc' = "scan"
                /\ haystack' = value.val
                /\ iters' = 0
                /\ UNCHANGED seen
    /\ UNCHANGED << input, attributes, is_html_element, id, class,
                    id_resolutions, class_resolutions >>

first_byte_searcher(case_sensitivity, first_byte, h) ==
    IF case_sensitivity = "CaseSensitive" THEN memchr(first_byte, h)
    ELSE memchr2(to_ascii_lowercase(first_byte), to_ascii_uppercase(first_byte), h)

\* the iteration as it would be with the haystack cut at pos, not after it
SubstringScan_KeepsFirstByte ==
    /\ pc = "scan"
    /\ LET case_sensitivity == to_unconditional(call.case_sensitivity, is_html_element)
           first_byte == split_first(call.value).val.first
           rest == split_first(call.value).val.rest
           pos == first_byte_searcher(case_sensitivity, first_byte, haystack)
           next_haystack == slice_from(haystack, pos)
           r == IF pos = -1 THEN "false"
                ELSE IF Len(rest) > Len(next_haystack) THEN "panic"
                ELSE IF cs_eq(case_sensitivity, slice_to(next_haystack, Len(rest)), rest)
                     THEN "true"
                ELSE "none"
       IN  /\ iters' = iters + 1
           /\ haystack' = (IF pos = -1 THEN haystack ELSE next_haystack)
           /\ ret' = r
           /\ pc' = (IF r = "none" THEN "scan" ELSE IF r = "panic" THEN "panicked"
                     ELSE "returned")
    /\ UNCHANGED << input, attributes, is_html_element, id, class, call,
                    actual_value, id_resolutions, class_resolutions, seen >>

\* one iteration of the loop of has_attr_with_substring
SubstringScan ==
    /\ pc = "scan"
    /\ LET case_sensitivity == to_unconditional(call.case_sensitivity, is_html_element)
           first_byte == split_first(call.value).val.first
           rest == split_first(call.value).val.rest
           pos == first_byte_searcher(case_sensitivity, first_byte, haystack)
           next_haystack == slice_from(haystack, pos + 1)
           r == IF pos = -1 THEN "false"
                ELSE IF Len(rest) > Len(next_haystack) THEN "panic"
                ELSE IF cs_eq(case_sensitivity, slice_to(next_haystack, Len(rest)), rest)
                     THEN "true"
                ELSE "none"
       IN  /\ iters' = iters + 1
           /\ haystack' = (IF pos = -1 THEN haystack ELSE next_haystack)
           /\ ret' = r
           /\ pc' = (IF r = "none" THEN "scan" ELSE IF r = "panic" THEN "panicked"
                     ELSE "returned")
    /\ UNCHANGED << input, attributes, is_html_element, id, class, call,
                    actual_value, id_resolutions, class_resolutions, seen >>

\* the caller takes the result of the call
Resume ==
    /\ pc = "returned"
    /\ pc' = "idle"
    /\ call' = NoCall
    /\ ret' = "none"
    /\ actual_value' = None
    /\ UNCHANGED << input, attributes, is_html_element, id, class, haystack, iters,
                    id_resolutions, class_resolutions, seen >>

\* the same, by a caller that may keep the id_matches / has_class call that
\* has returned, and its result, to compare later calls with
ResumeObserved ==
    /\ pc = "returned"
    /\ pc' = "idle"
    /\ call' = NoCall
    /\ ret' = "none"
    /\ actual_value' = None
    /\ \/ seen' = seen
       \/ /\ call.op \in { "id_matches", "has_class" }
          /\ seen' = [op |-> call.op, value |-> call.value, ret |-> ret]
    /\ UNCHANGED << input, attributes, is_html_element, id, class, haystack, iters,
                    id_resolutions, class_resolutions >>

Next ==
    \/ \E n \in TargetNames : HasAttribute(n)
    \/ \E v \in Needles : IdMatches(v)
    \/ \E v \in Needles : HasClass(v)
    \/ \E o \in Operands : AttrEq(o)
    \/ \E o \in Operands : MatchesSplittedBy(o)
    \/ \E o \in Operands : HasAttrWithPrefix(o)
    \/ \E o \in Operands : HasAttrWithSuffix(o)
    \/ \E o \in Operands : HasAttrWithSubstring(o)
    \/ SubstringScan
    \/ Resume

Spec == Init /\ [][Next]_vars

\* the calls of the memoized predicates, watched by the observer
NextMemo ==
    \/ \E n \in TargetNames : HasAttribute(n)
    \/ \E v \in Needles : IdMatches(v)
    \/ \E v \in Needles : HasClass(v)
    \/ ResumeObserved

SpecMemo == Init /\ [][NextMemo]_vars

\* a tag with up to MaxAttrs attributes, duplicates among them
TableValues == { << >>, << 97 >>, << 65 >> }

InitTable ==
    \E pairs \in SeqsUpTo([name : AttrNames, value : TableValues], MaxAttrs) :
        \E h \in BOOLEAN : New(pairs, h)

SpecTable == InitTable /\ [][Next]_vars

(***************************************************************************)
(* What the claims speak of, stated apart from the code above.             *)
(***************************************************************************)
Fold(x) == [i \in 1..Len(x) |-> IF x[i] \in 65..90 THEN x[i] + 32 ELSE x[i]]

\* the attributes of the table whose case-folded name is `target`
Matching(target) ==
    { k \in 1..Len(attributes) : Fold(slice(attributes[k].name)) = target }

FirstMatching(target) ==
    CHOOSE k \in Matching(target) : \A j \in Matching(target) : k <= j

\* the attribute name a call looks up
Target(c) ==
    IF c.op = "id_matches" THEN ID_ATTR
    ELSE IF c.op = "has_class" THEN CLASS_ATTR
    ELSE c.name

Done == pc \in { "returned", "panicked" }

ValueOps ==
    { "id_matches", "has_class", "attr_eq", "matches_splitted_by",
      "has_attr_with_prefix", "has_attr_with_suffix", "has_attr_with_substring" }

\* the operand of the call is compared ASCII-case-insensitively
Insensitive ==
    /\ call.case_sensitivity = "AsciiCaseInsensitiveIfInHtmlElementInHtmlDocument"
    /\ is_html_element

SameBytes(x, y) == IF Insensitive THEN Fold(x) = Fold(y) ELSE x = y

\* x occurs in v as a contiguous run of bytes
Occurs(x, v) ==
    \E s \in 0..(Len(v) - Len(x)) : SameBytes(SubSeq(v, s + 1, s + Len(x)), x)

\* the tokens of v: the maximal runs without whitespace, and the empty runs
\* before, between and after adjacent separators
IsSeparator(b) == b \in { 32, 9, 10, 13, 12 }

Tokens(v) ==
    { SubSeq(v, i, j - 1) : <<i, j>> \in
        { w \in (1..Len(v) + 1) \X (1..Len(v) + 1) :
            /\ w[1] <= w[2]
            /\ w[1] = 1 \/ IsSeparator(v[w[1] - 1])
            /\ w[2] = Len(v) + 1 \/ IsSeparator(v[w[2]])
            /\ \A k \in w[1]..(w[2] - 1) : ~ IsSeparator(v[k]) } }

\* C1: has_attribute(name) returns true iff some attribute of the table has a
\* name of the same length whose bytes, folded to ASCII lowercase, are the
\* bytes of name.
C1_HasAttributeIffFoldedNameEqual ==
    (pc = "returned" /\ call.op = "has_attribute")
        => ret = Bool(Matching(call.name) # {})

\* C2: every call of a public predicate returns a boolean and raises no
\* error or fatal condition, and a call whose lookup finds no attribute
\* returns false.
C2_PredicatesNeverFail ==
    Done => /\ ret \in { "true", "false" }
            /\ (call.op \in ValueOps /\ ~ actual_value.some) => ret = "false"

\* C3: when the operand's attribute resolves to v, has_attr_with_substring
\* returns true iff the operand value is non-empty and occurs in v as a
\* contiguous run of bytes under the resolved case sensitivity (so false for
\* the empty operand value).
C3_SubstringIffOccurs ==
    (Done /\ call.op = "has_attr_with_substring" /\ actual_value.some)
        => ret = Bool(call.value # << >> /\ Occurs(call.value, actual_value.val))

\* C4: when several attributes of the table have the case-folded name a
\* value-based predicate looks up, the value it is given is the value of the
\* first of them in document order.
C4_FirstDuplicateWins ==
    (Done /\ call.op \in ValueOps /\ Cardinality(Matching(Target(call))) >= 2)
        => actual_value = Some(slice(attributes[FirstMatching(Target(call))].value))

\* C5: over any sequence of id_matches and has_class calls the id attribute
\* is resolved at most once and the class attribute at most once, and a call
\* returns what any earlier call with the same argument returned.
C5_MemoizedOnce ==
    /\ id_resolutions <= 1
    /\ class_resolutions <= 1
    /\ (pc = "returned" /\ seen.op = call.op /\ seen.value = call.value)
           => ret = seen.ret

C5_Witness ==
    /\ pc = "returned"
    /\ seen.op = call.op
    /\ seen.value = call.value
    /\ ret = "true"
    /\ id_resolutions = 1
    /\ class_resolutions = 1

\* C6: when the operand's attribute resolves to v, attr_eq returns true iff
\* the whole of v equals the operand value: ASCII-case-insensitively for an
\* operand marked case-insensitive-unless-foreign on an HTML element, and byte
\* for byte on a foreign element or for a case-sensitive operand.
C6_AttrEqEffectiveSensitivity ==
    (pc = "returned" /\ call.op = "attr_eq" /\ actual_value.some)
        => ret = Bool(IF /\ call.case_sensitivity # "CaseSensitive"
                         /\ is_html_element
                      THEN Fold(actual_value.val) = Fold(call.value)
                      ELSE actual_value.val = call.value)

C6_Witness ==
    /\ pc = "returned"
    /\ call.op = "attr_eq"
    /\ actual_value.some
    /\ call.case_sensitivity = "AsciiCaseInsensitiveIfInHtmlElementInHtmlDocument"
    /\ ~ is_html_element
    /\ actual_value.val # call.value
    /\ Fold(actual_value.val) = Fold(call.value)
    /\ ret = "false"

\* C7: when the operand's attribute resolves to v, has_attr_with_prefix
\* (has_attr_with_suffix) returns true iff v is at least as long as the
\* operand value and its leading (trailing) bytes of that length equal the
\* operand value under the resolved case sensitivity; with the empty operand
\* value both return true.
C7_PrefixSuffix ==
    LET v == actual_value.val
        x == call.value
    IN  /\ (pc = "returned" /\ call.op = "has_attr_with_prefix" /\ actual_value.some)
               => /\ ret = Bool(\E t \in 0..Len(v) :
                                   /\ t = Len(x)
                                   /\ \A i \in 1..t : SameBytes(<< v[i] >>, << x[i] >>))
                  /\ x = << >> => ret = "true"
        /\ (pc = "returned" /\ call.op = "has_attr_with_suffix" /\ actual_value.some)
               => /\ ret = Bool(\E t \in 0..Len(v) :
                                   /\ t = Len(x)
                                   /\ \A i \in 1..t :
                                          SameBytes(<< v[Len(v) - t + i] >>, << x[i] >>))
                  /\ x = << >> => ret = "true"

C7_Witness ==
    /\ pc = "returned"
    /\ call.op = "has_attr_with_suffix"
    /\ actual_value.some
    /\ call.value # << >>
    /\ Len(actual_value.val) > Len(call.value)
    /\ SubSeq(actual_value.val, 1, Len(call.value)) # call.value
    /\ ret = "true"

\* C8: has_class(name) returns true iff a class attribute is present and one
\* of the tokens of its value, split at every attribute-whitespace byte,
\* equals name byte for byte.
C8_HasClassIffToken ==
    (pc = "returned" /\ call.op = "has_class")
        => ret = Bool(/\ Matching(CLASS_ATTR) # {}
                      /\ call.value \in
                             Tokens(slice(attributes[FirstMatching(CLASS_ATTR)].value)))

\* C9: no step changes the input buffer, the span table, the is_html flag or
\* the operand of the running call; the id cell changes only when id_matches
\* fills it, the class cell only when has_class fills it, and a filled cell
\* never changes.
C9_Frame ==
    [][ /\ input' = input
        /\ attributes' = attributes
        /\ is_html_element' = is_html_element
        /\ pc = "scan" => call' = call
        /\ id' # id => (~ id.filled /\ id'.filled /\ call'.op = "id_matches")
        /\ class' # class
               => (~ class.filled /\ class'.filled /\ call'.op = "has_class")
        /\ id.filled => id' = id
        /\ class.filled => class' = class ]_vars

C9_Witness ==
    /\ pc = "returned"
    /\ call.op = "has_class"
    /\ class.filled
    /\ class.inner.some
    /\ ~ id.filled

InSubstring == call.op = "has_attr_with_substring" /\ pc \in { "scan", "returned", "panicked" }

ScanShrinks ==
    (pc = "scan" /\ pc' = "scan")
        => /\ Len(haystack') < Len(haystack)
           /\ haystack' = SubSeq(haystack, Len(haystack) - Len(haystack') + 1,
                                 Len(haystack))

\* C10 as stated: every iteration of the scan loop exits or leaves a strictly
\* shorter suffix of the haystack, the loop ends, and it runs at most as many
\* iterations as the resolved value has bytes.
C10_IterationsAtMostValueLen ==
    /\ [][ScanShrinks]_vars
    /\ (pc = "scan") ~> (pc # "scan")
    /\ [](InSubstring => iters <= Len(actual_value.val))

\* C10, amended: every iteration of the scan loop exits or leaves a strictly
\* shorter suffix of the haystack, the loop ends, and it runs at most as many
\* iterations as the resolved value has bytes, or one iteration when the
\* value is empty.
C10_ScanTerminates ==
    /\ [][ScanShrinks]_vars
    /\ (pc = "scan") ~> (pc # "scan")
    /\ [](InSubstring
            => iters <= (IF actual_value.val = << >> THEN 1 ELSE Len(actual_value.val)))

C10_Witness ==
    /\ pc = "returned"
    /\ call.op = "has_attr_with_substring"
    /\ iters >= 2
    /\ iters = Len(actual_value.val)

\* the loop of has_attr_with_substring runs on once entered
SpecFair == Spec /\ WF_vars(SubstringScan)

====
